---- MODULE Spec2Model ----
(***************************************************************************)
(* Model of the net layer of the ssdp crate: src/net/mod.rs (address       *)
(* resolution, reuse binding, multicast join/leave, the NetworkStream      *)
(* default send) and src/net/connector.rs (UdpConnector).                  *)
(*                                                                         *)
(* Text is a sequence of one-character strings, so that parsing and        *)
(* formatting are computed character by character as the library does.     *)
(***************************************************************************)
EXTENDS Integers, Sequences, FiniteSets, TLC

VARIABLES
    rin,        \* addr_from_trait / from_addr: the address input of the last call
    rcands,     \* what addr.to_socket_addrs() returned in the last call
    rout,       \* io::Result<SocketAddr> returned by addr_from_trait
    rmode,      \* io::Result<IpVersionMode> returned by from_addr ("none" when not called)
    windows,    \* cfg(windows): the build target, fixed at start
    sockets,    \* the OS table of bound UDP sockets
    bcalls,     \* OS calls made by the last bind_reuse / UdpConnector::new, in order
    bres,       \* its result
    mcalls,     \* OS calls made by the last join_multicast / leave_multicast
    mres,       \* its result
    slog,       \* calls made on the stream by NetworkStream::send, in order
    sres,       \* results of the send calls, in order
    local,      \* what the connector's socket reports as local_addr()
    handles,    \* open OS handles onto the connector's socket (0 is the connector's own)
    pc,         \* per thread: position inside connect
    chost,      \* per thread: host argument of the connect in progress / last finished
    cport,      \* per thread: port argument
    chandle,    \* per thread: the handle cloned by this call (-1: none)
    cres,       \* per thread: the io::Result<UdpSender> of the last finished call
    wire        \* datagrams transmitted on the connector's socket

resolveVars == <<rin, rcands, rout, rmode>>
bindVars    == <<windows, sockets, bcalls, bres>>
mcastVars   == <<mcalls, mres>>
sendVars    == <<slog, sres>>
connVars    == <<local, handles, pc, chost, cport, chandle, cres, wire>>
vars == <<rin, rcands, rout, rmode, windows, sockets, bcalls, bres, mcalls, mres,
          slog, sres, local, handles, pc, chost, cport, chandle, cres, wire>>

-----------------------------------------------------------------------------
(* Bounds of the model *)

MaxCands   == 2    \* longest candidate list an address input yields
MaxSockets == 2    \* bound sockets kept in the OS table
MaxSends   == 2    \* send calls recorded on one stream
MaxPacket  == 2    \* longest packet buffer
MaxScope   == 3    \* the non-zero scope id of the model's V6 addresses
MaxFlow    == 7    \* the non-zero flow-info of the model's V6 addresses
MaxWire    == 1    \* datagrams counted on the wire

U8Max  == 255
U16Max == 65535
\* u16::MAX and u32::MAX as decimal text (u32::MAX is beyond TLC's integers)
U16MaxText == <<"6","5","5","3","5">>
U32MaxText == <<"4","2","9","4","9","6","7","2","9","5">>

-----------------------------------------------------------------------------
(* Values *)

NoIp   == <<>>
NoAddr == [fam |-> "none", ip |-> NoIp, port |-> 0, flow |-> 0, scope |-> 0]

V4(ip, port) == [fam |-> "V4", ip |-> ip, port |-> port, flow |-> 0, scope |-> 0]
V6(ip, port, flow, scope) ==
    [fam |-> "V6", ip |-> ip, port |-> port, flow |-> flow, scope |-> scope]

\* io::ErrorKind values that occur
InvalidInput  == "InvalidInput"
Uncategorized == "Uncategorized"      \* getaddrinfo failure
AddrInUse     == "AddrInUse"
PermissionDenied == "PermissionDenied"
OsKinds == {AddrInUse, PermissionDenied}

\* io::Result<SocketAddr>; origin names the call that created the error
OkAddr(a)          == [tag |-> "Ok",  addr |-> a,      kind |-> "",   origin |-> ""]
ErrAddr(kind, org) == [tag |-> "Err", addr |-> NoAddr, kind |-> kind, origin |-> org]
NoResult           == [tag |-> "None", addr |-> NoAddr, kind |-> "",  origin |-> ""]

-----------------------------------------------------------------------------
(* Text: parsing as std::net's parser does it *)

DigitVal ==
    [c \in {"0","1","2","3","4","5","6","7","8","9",
            "a","b","c","d","e","f","A","B","C","D","E","F"} |->
        CASE c = "0" -> 0 [] c = "1" -> 1 [] c = "2" -> 2 [] c = "3" -> 3
          [] c = "4" -> 4 [] c = "5" -> 5 [] c = "6" -> 6 [] c = "7" -> 7
          [] c = "8" -> 8 [] c = "9" -> 9
          [] c \in {"a","A"} -> 10 [] c \in {"b","B"} -> 11
          [] c \in {"c","C"} -> 12 [] c \in {"d","D"} -> 13
          [] c \in {"e","E"} -> 14 [] c \in {"f","F"} -> 15]

\* char::to_digit(radix): -1 for None
to_digit(c, radix) ==
    IF c \in DOMAIN DigitVal /\ DigitVal[c] < radix THEN DigitVal[c] ELSE -1

\* Parser state is the 1-based index of the next character. A reader returns
\* [ok, pos, val]; a failed read consumes nothing (read_atomically), so the
\* caller goes on from the position it held.
Fail         == [ok |-> FALSE, pos |-> 0, val |-> 0]
Got(pos, v)  == [ok |-> TRUE,  pos |-> pos, val |-> v]

peek(s, pos) == IF pos <= Len(s) THEN s[pos] ELSE ""

\* how many consecutive radix-digits start at pos
RECURSIVE digit_run(_, _, _)
digit_run(s, pos, radix) ==
    IF pos <= Len(s) /\ to_digit(s[pos], radix) >= 0
    THEN 1 + digit_run(s, pos + 1, radix)
    ELSE 0

\* value of the n digits starting at pos
RECURSIVE digits_value(_, _, _, _)
digits_value(s, pos, n, radix) ==
    IF n = 0 THEN 0
    ELSE digits_value(s, pos, n - 1, radix) * radix + to_digit(s[pos + n - 1], radix)

\* result.try_into().ok(): the value must fit the target type
number_of(pos, n, v, maxVal) == IF v > maxVal THEN Fail ELSE Got(pos + n, v)

\* the checks of read_number on a run of n digits
number_at(s, pos, radix, n, maxDigits, allowZeroPrefix, maxVal) ==
    IF n = 0 THEN Fail
    ELSE IF n > maxDigits THEN Fail
    ELSE IF ~allowZeroPrefix /\ peek(s, pos) = "0" /\ n > 1 THEN Fail
    ELSE number_of(pos, n, digits_value(s, pos, n, radix), maxVal)

\* Parser::read_number(radix, Some(maxDigits), allow_zero_prefix) into a type
\* whose largest value is maxVal
read_number(s, pos, radix, maxDigits, allowZeroPrefix, maxVal) ==
    number_at(s, pos, radix, digit_run(s, pos, radix), maxDigits, allowZeroPrefix, maxVal)

\* how many '0' characters start at pos, at most n
RECURSIVE zero_run(_, _, _)
zero_run(s, pos, n) ==
    IF n > 0 /\ pos <= Len(s) /\ s[pos] = "0" THEN 1 + zero_run(s, pos + 1, n - 1) ELSE 0

\* a <= b for two decimal texts of the same length
RECURSIVE text_leq(_, _)
text_leq(a, b) ==
    IF Len(a) = 0 THEN TRUE
    ELSE IF a[1] # b[1] THEN to_digit(a[1], 10) < to_digit(b[1], 10)
    ELSE text_leq(Tail(a), Tail(b))

\* whether n decimal digits at pos, z of them leading zeros, denote a value of
\* at most maxText
fits_sig(s, pos, n, z, maxText) ==
    \/ n - z < Len(maxText)
    \/ n - z = Len(maxText) /\ text_leq(SubSeq(s, pos + z, pos + n - 1), maxText)

\* what checked_mul / checked_add decide, read off the digits
fits_decimal(s, pos, n, maxText) == fits_sig(s, pos, n, zero_run(s, pos, n), maxText)

decimal_at(s, pos, n, maxText) ==
    IF n = 0 THEN Fail
    ELSE IF ~fits_decimal(s, pos, n, maxText) THEN Fail
    ELSE Got(pos + n, digits_value(s, pos, n, 10))

\* Parser::read_number(10, None, true) into an unsigned type whose largest value
\* reads maxText: any number of digits, leading zeros allowed, overflow refused
read_decimal(s, pos, maxText) == decimal_at(s, pos, digit_run(s, pos, 10), maxText)

\* Parser::read_ipv4_addr: four u8 groups separated by '.', no leading zeros
RECURSIVE read_ipv4_groups(_, _, _, _)
ipv4_group(s, i, acc, n) ==
    IF n.ok THEN read_ipv4_groups(s, n.pos, i + 1, Append(acc, n.val)) ELSE Fail
read_ipv4_groups(s, pos, i, acc) ==
    IF i = 4 THEN Got(pos, acc)
    ELSE IF i > 0 /\ peek(s, pos) # "." THEN Fail
    ELSE ipv4_group(s, i, acc,
                    read_number(s, IF i > 0 THEN pos + 1 ELSE pos, 10, 3, FALSE, U8Max))
read_ipv4_addr(s, pos) == read_ipv4_groups(s, pos, 0, <<>>)

\* read_separator(':', i, inner): the separator is read only when i > 0
sep_pos(s, pos, i) ==
    IF i = 0 THEN pos
    ELSE IF peek(s, pos) = ":" THEN pos + 1 ELSE 0      \* 0: separator missing

\* read_groups of Parser::read_ipv6_addr: fills at most limit groups starting at
\* group i; returns [pos, groups, ipv4]
GroupsRead(pos, groups, ipv4) == [pos |-> pos, groups |-> groups, ipv4 |-> ipv4]
RECURSIVE read_groups(_, _, _, _, _)
\* a 16-bit hexadecimal group
group_hex(s, pos, i, limit, acc, grp) ==
    IF grp.ok THEN read_groups(s, grp.pos, i + 1, limit, Append(acc, grp.val))
    ELSE GroupsRead(pos, acc, FALSE)
\* a trailing embedded IPv4 address, which fills two groups and ends the read
group_v4(s, pos, p, i, limit, acc, v4) ==
    IF v4.ok
    THEN GroupsRead(v4.pos,
                    acc \o <<v4.val[1] * 256 + v4.val[2], v4.val[3] * 256 + v4.val[4]>>,
                    TRUE)
    ELSE group_hex(s, pos, i, limit, acc, read_number(s, p, 16, 4, TRUE, U16Max))
group_at(s, pos, p, i, limit, acc) ==
    IF p = 0 THEN GroupsRead(pos, acc, FALSE)
    ELSE group_v4(s, pos, p, i, limit, acc,
                  IF i < limit - 1 THEN read_ipv4_addr(s, p) ELSE Fail)
read_groups(s, pos, i, limit, acc) ==
    IF i >= limit THEN GroupsRead(pos, acc, FALSE)
    ELSE group_at(s, pos, sep_pos(s, pos, i), i, limit, acc)

Zeros(n) == [k \in 1..n |-> 0]

\* Parser::read_ipv6_addr: the groups before "::", then those after it
ipv6_tail(head, tail) ==
    Got(tail.pos,
        head.groups \o Zeros(8 - Len(head.groups) - Len(tail.groups)) \o tail.groups)
ipv6_head(s, head) ==
    IF Len(head.groups) = 8 THEN Got(head.pos, head.groups)
    ELSE IF head.ipv4 THEN Fail                  \* no IPv4 part before "::"
    ELSE IF ~(peek(s, head.pos) = ":" /\ peek(s, head.pos + 1) = ":") THEN Fail
    ELSE ipv6_tail(head, read_groups(s, head.pos + 2, 0, 8 - (Len(head.groups) + 1), <<>>))
read_ipv6_addr(s, pos) == ipv6_head(s, read_groups(s, pos, 0, 8, <<>>))

\* Parser::read_port: ':' then a u16
read_port(s, pos) ==
    IF peek(s, pos) = ":" THEN read_decimal(s, pos + 1, U16MaxText) ELSE Fail

\* Parser::read_scope_id: '%' then a u32
read_scope_id(s, pos) ==
    IF peek(s, pos) = "%" THEN read_decimal(s, pos + 1, U32MaxText) ELSE Fail

\* Parser::read_socket_addr_v4: ip ':' port
sockv4_make(ip, pt) == IF pt.ok THEN Got(pt.pos, V4(ip.val, pt.val)) ELSE Fail
sockv4_port(s, ip)  == IF ip.ok THEN sockv4_make(ip, read_port(s, ip.pos)) ELSE Fail
read_socket_addr_v4(s, pos) == sockv4_port(s, read_ipv4_addr(s, pos))

\* Parser::read_socket_addr_v6: '[' ip ('%' scope)? ']' ':' port, flow-info 0
sockv6_make(ip, scope, pt) ==
    IF pt.ok THEN Got(pt.pos, V6(ip.val, pt.val, 0, scope)) ELSE Fail
sockv6_close(s, ip, scope, pos) ==
    IF peek(s, pos) = "]" THEN sockv6_make(ip, scope, read_port(s, pos + 1)) ELSE Fail
sockv6_scope(s, ip, sc) ==
    IF sc.ok THEN sockv6_close(s, ip, sc.val, sc.pos)
    ELSE sockv6_close(s, ip, 0, ip.pos)          \* unwrap_or(0)
sockv6_ip(s, ip) == IF ip.ok THEN sockv6_scope(s, ip, read_scope_id(s, ip.pos)) ELSE Fail
read_socket_addr_v6(s, pos) ==
    IF peek(s, pos) = "[" THEN sockv6_ip(s, read_ipv6_addr(s, pos + 1)) ELSE Fail

\* parse_with: the reader must succeed and consume the whole text
parse_whole(s, r) == IF r.ok /\ r.pos = Len(s) + 1 THEN r ELSE Fail

\* <Ipv4Addr as FromStr>::from_str: texts longer than 15 bytes are refused
Ipv4Addr_from_str(s) ==
    IF Len(s) > 15 THEN Fail ELSE parse_whole(s, read_ipv4_addr(s, 1))

\* <SocketAddrV6 as FromStr>::from_str
SocketAddrV6_from_str(s) == parse_whole(s, read_socket_addr_v6(s, 1))

\* <SocketAddr as FromStr>::from_str: the V4 form, else the V6 form
first_ok(a, b) == IF a.ok THEN a ELSE b
SocketAddr_from_str(s) ==
    first_ok(parse_whole(s, read_socket_addr_v4(s, 1)),
             parse_whole(s, read_socket_addr_v6(s, 1)))

\* u16 as Display: decimal digits, no sign, no leading zeros
DigitChar == <<"0","1","2","3","4","5","6","7","8","9">>
RECURSIVE fmt_u16(_)
fmt_u16(n) ==
    IF n < 10 THEN <<DigitChar[n + 1]>>
    ELSE Append(fmt_u16(n \div 10), DigitChar[(n % 10) + 1])

\* str::find(c) / str::rfind(c) as 0-based byte index, -1 for None
str_find(s, c) ==
    IF \E k \in 1..Len(s) : s[k] = c
    THEN (CHOOSE k \in 1..Len(s) : s[k] = c /\ \A j \in 1..(k - 1) : s[j] # c) - 1
    ELSE -1
str_rfind(s, c) ==
    IF \E k \in 1..Len(s) : s[k] = c
    THEN (CHOOSE k \in 1..Len(s) : s[k] = c /\ \A j \in (k + 1)..Len(s) : s[j] # c) - 1
    ELSE -1

-----------------------------------------------------------------------------
(* Address inputs (anything implementing ToSocketAddrs) *)

Texts ==
    [ t_192_168_0_1_p0  |-> <<"1","9","2",".","1","6","8",".","0",".","1",":","0">>,
      t_192_168_0_1     |-> <<"1","9","2",".","1","6","8",".","0",".","1">>,
      t_10_0_0_1_p1900  |-> <<"1","0",".","0",".","0",".","1",":","1","9","0","0">>,
      t_b_loop6_p80     |-> <<"[",":",":","1","]",":","8","0">>,
      t_b_fe80_s1_p1900 |-> <<"[","f","e","8","0",":",":","1","%","1","]",":","1","9","0","0">>,
      t_b_loop6         |-> <<"[",":",":","1","]">>,
      t_localhost_p80   |-> <<"l","o","c","a","l","h","o","s","t",":","8","0">>,
      t_localhost       |-> <<"l","o","c","a","l","h","o","s","t">>,
      t_host_http       |-> <<"h","o","s","t",":","h","t","t","p">>,
      t_1_2_3_4_p65536  |-> <<"1",".","2",".","3",".","4",":","6","5","5","3","6">>,
      t_256_1_1_1_p80   |-> <<"2","5","6",".","1",".","1",".","1",":","8","0">>,
      t_loop6_p80       |-> <<":",":","1",":","8","0">>,
      t_1_2_3_4_plus80  |-> <<"1",".","2",".","3",".","4",":","+","8","0">>,
      t_empty           |-> <<>>,
      t_0_0_0_0_p1900   |-> <<"0",".","0",".","0",".","0",":","1","9","0","0">> ]

Ips ==
    [ v4_192_168_0_1     |-> <<192, 168, 0, 1>>,
      v4_10_0_0_1        |-> <<10, 0, 0, 1>>,
      v4_127_0_0_1       |-> <<127, 0, 0, 1>>,
      v6_loop            |-> <<0, 0, 0, 0, 0, 0, 0, 1>>,
      v6_fe80_1          |-> <<65152, 0, 0, 0, 0, 0, 0, 1>>,
      v4_any4            |-> <<0, 0, 0, 0>>,
      v4_239_255_255_250 |-> <<239, 255, 255, 250>>,
      v4_224_0_0_251     |-> <<224, 0, 0, 251>>,
      v6_ff02_c          |-> <<65282, 0, 0, 0, 0, 0, 0, 12>>,
      v6_ff05_c          |-> <<65285, 0, 0, 0, 0, 0, 0, 12>>,
      v4_1_2_3_4         |-> <<1, 2, 3, 4>>,
      v4_255x4           |-> <<255, 255, 255, 255>>,
      v6_mapped          |-> <<0, 0, 0, 0, 0, 65535, 258, 772>>,
      v6_full            |-> <<1, 2, 3, 4, 5, 6, 7, 8>> ]

\* "ip:port" literals, with the address each one denotes
ValidLiterals ==
    { [text |-> Texts.t_192_168_0_1_p0,  addr |-> V4(Ips.v4_192_168_0_1, 0)],
      [text |-> Texts.t_10_0_0_1_p1900,  addr |-> V4(Ips.v4_10_0_0_1, 1900)],
      [text |-> Texts.t_b_loop6_p80,     addr |-> V6(Ips.v6_loop, 80, 0, 0)],
      [text |-> Texts.t_b_fe80_s1_p1900, addr |-> V6(Ips.v6_fe80_1, 1900, 0, 1)] }

TextInputs ==
    { l.text : l \in ValidLiterals } \cup
    { Texts.t_192_168_0_1, Texts.t_b_loop6, Texts.t_localhost_p80, Texts.t_localhost, Texts.t_host_http,
      Texts.t_1_2_3_4_p65536, Texts.t_256_1_1_1_p80, Texts.t_loop6_p80, Texts.t_1_2_3_4_plus80, Texts.t_empty }

AddrPool ==
    { V4(Ips.v4_192_168_0_1, 1900), V4(Ips.v4_10_0_0_1, 0),
      V6(Ips.v6_loop, 1900, 0, 0), V6(Ips.v6_fe80_1, 80, 0, 1) }

SeqsUpTo(S, n) == UNION { [1..k -> S] : k \in 0..n }

StrInput(t)   == [kind |-> "str",   text |-> t,    addrs |-> <<>>]
SliceInput(a) == [kind |-> "slice", text |-> <<>>, addrs |-> a]
NoInput       == [kind |-> "none",  text |-> <<>>, addrs |-> <<>>]

AddrInputs ==
    { StrInput(t) : t \in TextInputs } \cup
    { SliceInput(a) : a \in SeqsUpTo(AddrPool, MaxCands) }

\* What the system resolver answers for a host name: a failure, or one or more
\* addresses. It is the environment's choice at each call.
LookupIps == { [fam |-> "V4", ip |-> Ips.v4_127_0_0_1], [fam |-> "V6", ip |-> Ips.v6_loop] }
LookupOutcomes ==
    { [tag |-> "Err", ips |-> <<>>] } \cup
    { [tag |-> "Ok",  ips |-> c] : c \in SeqsUpTo(LookupIps, MaxCands) \ {<<>>} }

OkCands(c)  == [tag |-> "Ok",  cands |-> c,    kind |-> ""]
ErrCands(k) == [tag |-> "Err", cands |-> <<>>, kind |-> k]
NoCands     == [tag |-> "None", cands |-> <<>>, kind |-> ""]

\* <u16 as FromStr>::from_str: optional '+', then decimal digits, no overflow
u16_digits(body) ==
    IF Len(body) > 0 /\ digit_run(body, 1, 10) = Len(body)
    THEN read_decimal(body, 1, U16MaxText)
    ELSE Fail
parse_u16(t) == u16_digits(IF Len(t) > 0 /\ t[1] = "+" THEN Tail(t) ELSE t)

\* resolve_socket_addr: the looked-up addresses with the port applied
with_port(ips, port) ==
    [k \in 1..Len(ips) |->
        IF ips[k].fam = "V4" THEN V4(ips[k].ip, port) ELSE V6(ips[k].ip, port, 0, 0)]

\* <str as ToSocketAddrs>::to_socket_addrs: a socket address literal, else
\* "host:port" split at the last ':' and looked up
lookup_host(port, env) ==
    IF ~port.ok THEN ErrCands(InvalidInput)                  \* "invalid port value"
    ELSE IF env.tag = "Err" THEN ErrCands(Uncategorized)     \* "failed to lookup address information"
    ELSE OkCands(with_port(env.ips, port.val))
split_host_port(t, colon, env) ==
    IF colon < 0 THEN ErrCands(InvalidInput)                 \* "invalid socket address"
    ELSE lookup_host(parse_u16(SubSeq(t, colon + 2, Len(t))), env)
literal_or_lookup(t, lit, env) ==
    IF lit.ok THEN OkCands(<<lit.val>>)
    ELSE split_host_port(t, str_rfind(t, ":"), env)
str_to_socket_addrs(t, env) == literal_or_lookup(t, SocketAddr_from_str(t), env)

\* addr.to_socket_addrs() for the input kinds of the model
to_socket_addrs(input, env) ==
    IF input.kind = "str" THEN str_to_socket_addrs(input.text, env)
    ELSE OkCands(input.addrs)

\* whether the call consults the resolver at all: a failing resolver shows
LookupFails == [tag |-> "Err", ips |-> <<>>]
uses_lookup(input) == to_socket_addrs(input, LookupFails).kind = Uncategorized

EnvFor(input) == IF uses_lookup(input) THEN LookupOutcomes ELSE {LookupFails}

-----------------------------------------------------------------------------
(* src/net/mod.rs: addr_from_trait, IpVersionMode::from_addr *)

\* a slip: every failure rewritten to a fresh InvalidInput
first_or_invalid(it) ==
    IF it.tag = "Ok" /\ Len(it.cands) > 0 THEN OkAddr(it.cands[1])
    ELSE ErrAddr(InvalidInput, "addr_from_trait")
addr_from_trait_collapsing(input, env) == first_or_invalid(to_socket_addrs(input, env))

\* a slip: the last candidate instead of the first
last_candidate(it) ==
    IF it.tag = "Err" THEN ErrAddr(it.kind, "to_socket_addrs")
    ELSE IF Len(it.cands) > 0 THEN OkAddr(it.cands[Len(it.cands)])
    ELSE ErrAddr(InvalidInput, "addr_from_trait")
addr_from_trait_last(input, env) == last_candidate(to_socket_addrs(input, env))

\* the body of addr_from_trait on what to_socket_addrs returned
first_candidate(it) ==
    IF it.tag = "Err" THEN ErrAddr(it.kind, "to_socket_addrs")   \* `?` returns the error as it is
    ELSE IF Len(it.cands) > 0 THEN OkAddr(it.cands[1])           \* sock_iter.next()
    ELSE ErrAddr(InvalidInput, "addr_from_trait")

addr_from_trait(input, env) == first_candidate(to_socket_addrs(input, env))

OkMode(m)       == [tag |-> "Ok",  mode |-> m,  kind |-> ""]
ErrMode(k)      == [tag |-> "Err", mode |-> "", kind |-> k]
NoMode          == [tag |-> "None", mode |-> "", kind |-> ""]
IpVersionModes  == {"V4Only", "V6Only", "Any"}

mode_of(r) ==
    IF r.tag = "Err" THEN ErrMode(r.kind)
    ELSE IF r.addr.fam = "V4" THEN OkMode("V4Only")
    ELSE OkMode("V6Only")

from_addr(input, env) == mode_of(addr_from_trait(input, env))

AddrFromTrait ==
    \E input \in AddrInputs : \E env \in EnvFor(input) :
        /\ rin' = input
        /\ rcands' = to_socket_addrs(input, env)
        /\ rout' = addr_from_trait(input, env)
        /\ rmode' = NoMode
        /\ UNCHANGED <<bindVars, mcastVars, sendVars, connVars>>

FromAddr ==
    \E input \in AddrInputs : \E env \in EnvFor(input) :
        /\ rin' = input
        /\ rcands' = to_socket_addrs(input, env)
        /\ rout' = addr_from_trait(input, env)
        /\ rmode' = from_addr(input, env)
        /\ UNCHANGED <<bindVars, mcastVars, sendVars, connVars>>

-----------------------------------------------------------------------------
(* The operating system's UDP bind table *)


EphemeralPorts == {49152, 49153}

\* a bound socket: its address, its options, and the function that made it
Sock(addr, ra, rp, by) == [addr |-> addr, reuseaddr |-> ra, reuseport |-> rp, by |-> by]

Overlap(a, b) ==
    /\ a.fam = b.fam
    /\ a.port = b.port
    /\ (a.ip = b.ip \/ a.ip = Ips.v4_any4 \/ b.ip = Ips.v4_any4)

\* Two UDP sockets may share an address and port only when both asked for it
\* (SO_REUSEADDR on both, or SO_REUSEPORT on both).
Conflict(old, addr, ra, rp) ==
    /\ Overlap(old.addr, addr)
    /\ ~((old.reuseaddr /\ ra) \/ (old.reuseport /\ rp))

\* the port the system would assign to a bind on port 0 (0: none is free)
PortChoices(table) ==
    LET free == { p \in EphemeralPorts : \A k \in 1..Len(table) : table[k].addr.port # p }
    IN  IF free = {} THEN {0} ELSE free

OsCall(c, a) == [call |-> c, arg |-> a]

\* injected failures of OS calls; all other failures follow from the bind table
Faults == {"none", "socket", "reuseaddr", "reuseport", "bind"}

\* bind(2) of a socket with the given options: [tag, kind, addr]
os_bind(table, addr, ra, rp, eport, fault) ==
    LET actual == IF addr.port = 0 THEN [addr EXCEPT !.port = eport] ELSE addr
    IN  IF fault = "bind" THEN [tag |-> "Err", kind |-> PermissionDenied, addr |-> NoAddr]
        ELSE IF actual.port = 0 THEN [tag |-> "Err", kind |-> AddrInUse, addr |-> NoAddr]
        ELSE IF \E k \in 1..Len(table) : Conflict(table[k], actual, ra, rp)
        THEN [tag |-> "Err", kind |-> AddrInUse, addr |-> NoAddr]
        ELSE [tag |-> "Ok", kind |-> "", addr |-> actual]

\* io::Result<UdpSocket> of a binding function, with what the call was given
BindOk(op, addr, resolved, fault) ==
    [op |-> op, tag |-> "Ok", addr |-> addr, kind |-> "", origin |-> "",
     resolved |-> resolved, fault |-> fault]
BindErr(op, kind, origin, resolved, fault) ==
    [op |-> op, tag |-> "Err", addr |-> NoAddr, kind |-> kind, origin |-> origin,
     resolved |-> resolved, fault |-> fault]
NoBind ==
    [op |-> "none", tag |-> "None", addr |-> NoAddr, kind |-> "", origin |-> "",
     resolved |-> NoResult, fault |-> "none"]

-----------------------------------------------------------------------------
(* src/net/mod.rs: reuse_port, bind_reuse *)

\* the two cfg variants of reuse_port: [ok, kind, origin, calls, ra, rp]
reuse_port(win, fault) ==
    LET sa == OsCall("setsockopt", "SO_REUSEADDR")
        sp == OsCall("setsockopt", "SO_REUSEPORT")
    IN  IF fault = "reuseaddr"
        THEN [ok |-> FALSE, kind |-> PermissionDenied, origin |-> "reuse_address",
              calls |-> <<sa>>, ra |-> FALSE, rp |-> FALSE]
        ELSE IF win
        THEN [ok |-> TRUE, kind |-> "", origin |-> "", calls |-> <<sa>>,
              ra |-> TRUE, rp |-> FALSE]
        ELSE IF fault = "reuseport"
        THEN [ok |-> FALSE, kind |-> PermissionDenied, origin |-> "reuse_port",
              calls |-> <<sa, sp>>, ra |-> TRUE, rp |-> FALSE]
        ELSE [ok |-> TRUE, kind |-> "", origin |-> "", calls |-> <<sa, sp>>,
              ra |-> TRUE, rp |-> TRUE]

\* a slip: the options are set after the bind
bind_late(r, opts, fault, eport, table) ==
    LET mk == OsCall("socket", r.addr.fam)
        b  == os_bind(table, r.addr, FALSE, FALSE, eport, fault)
        cl == OsCall("close", "")
    IN  IF r.tag = "Err"
        THEN [res |-> BindErr("bind_reuse", r.kind, r.origin, r, fault),
              calls |-> <<>>, table |-> table]
        ELSE IF fault = "socket"
        THEN [res |-> BindErr("bind_reuse", PermissionDenied, "socket", r, fault),
              calls |-> <<mk>>, table |-> table]
        ELSE IF b.tag = "Err"
        THEN [res |-> BindErr("bind_reuse", b.kind, "bind", r, fault),
              calls |-> <<mk, OsCall("bind", "")>> \o <<cl>>, table |-> table]
        ELSE IF ~opts.ok
        THEN [res |-> BindErr("bind_reuse", opts.kind, opts.origin, r, fault),
              calls |-> <<mk, OsCall("bind", "")>> \o opts.calls \o <<cl>>, table |-> table]
        ELSE [res |-> BindOk("bind_reuse", b.addr, r, fault),
              calls |-> <<mk, OsCall("bind", "")>> \o opts.calls,
              table |-> Append(table, Sock(b.addr, FALSE, FALSE, "bind_reuse"))]
bind_reuse_late(input, env, fault, eport, table, win) ==
    bind_late(addr_from_trait(input, env), reuse_port(win, fault), fault, eport, table)

\* the body of bind_reuse on the resolved address r and the outcome opts of
\* reuse_port: [res, calls, table]
bind_builder(r, opts, fault, eport, table) ==
    LET mk == OsCall("socket", r.addr.fam)          \* UdpBuilder::new_v4 / new_v6
        b  == os_bind(table, r.addr, opts.ra, opts.rp, eport, fault)
        cl == OsCall("close", "")                   \* the builder is dropped
    IN  IF r.tag = "Err"
        THEN [res |-> BindErr("bind_reuse", r.kind, r.origin, r, fault),
              calls |-> <<>>, table |-> table]
        ELSE IF fault = "socket"
        THEN [res |-> BindErr("bind_reuse", PermissionDenied, "socket", r, fault),
              calls |-> <<mk>>, table |-> table]
        ELSE IF ~opts.ok
        THEN [res |-> BindErr("bind_reuse", opts.kind, opts.origin, r, fault),
              calls |-> <<mk>> \o opts.calls \o <<cl>>, table |-> table]
        ELSE IF b.tag = "Err"
        THEN [res |-> BindErr("bind_reuse", b.kind, "bind", r, fault),
              calls |-> <<mk>> \o opts.calls \o <<OsCall("bind", "")>> \o <<cl>>,
              table |-> table]
        ELSE [res |-> BindOk("bind_reuse", b.addr, r, fault),
              calls |-> <<mk>> \o opts.calls \o <<OsCall("bind", "")>>,
              table |-> Append(table, Sock(b.addr, opts.ra, opts.rp, "bind_reuse"))]

bind_reuse(input, env, fault, eport, table, win) ==
    bind_builder(addr_from_trait(input, env), reuse_port(win, fault), fault, eport, table)

-----------------------------------------------------------------------------
(* src/net/connector.rs: UdpConnector::new *)

\* what the constructor would be if it went through bind_reuse
as_connector(b, table) ==
    [res |-> [b.res EXCEPT !.op = "new"], calls |-> b.calls,
     table |-> IF b.res.tag = "Ok"
               THEN [b.table EXCEPT ![Len(b.table)].by = "new"]
               ELSE table]
UdpConnector_new_reusing(input, env, fault, eport, table, win) ==
    as_connector(bind_reuse(input, env, fault, eport, table, win), table)

\* UdpSocket::bind(addr) on the resolved address r: a socket, then bind; no
\* option is set on a UDP socket
connector_bind(r, fault, eport, table) ==
    LET mk == OsCall("socket", r.addr.fam)
        b  == os_bind(table, r.addr, FALSE, FALSE, eport, fault)
        cl == OsCall("close", "")
    IN  IF r.tag = "Err"
        THEN [res |-> BindErr("new", r.kind, r.origin, r, fault),
              calls |-> <<>>, table |-> table]
        ELSE IF fault = "socket"
        THEN [res |-> BindErr("new", PermissionDenied, "socket", r, fault),
              calls |-> <<mk>>, table |-> table]
        ELSE IF b.tag = "Err"
        THEN [res |-> BindErr("new", b.kind, "bind", r, fault),
              calls |-> <<mk, OsCall("bind", ""), cl>>, table |-> table]
        ELSE [res |-> BindOk("new", b.addr, r, fault),
              calls |-> <<mk, OsCall("bind", "")>>,
              table |-> Append(table, Sock(b.addr, FALSE, FALSE, "new"))]

\* UdpConnector::new(local_addr, _): addr_from_trait, then UdpSocket::bind; the
\* second argument is not used
UdpConnector_new(input, env, fault, eport, table, win) ==
    connector_bind(addr_from_trait(input, env), fault, eport, table)

BindInputs ==
    { StrInput(t) : t \in {Texts.t_192_168_0_1_p0, Texts.t_10_0_0_1_p1900, Texts.t_0_0_0_0_p1900,
                           Texts.t_b_loop6_p80, Texts.t_192_168_0_1, Texts.t_localhost_p80} }
    \cup { SliceInput(<<>>) }

\* the resolver's answers tried when binding: a failure or a single address
BindEnvFor(input) == { e \in EnvFor(input) : Len(e.ips) <= 1 }

\* faults that name a call the function makes
FaultsOf(op) == IF op = "new" THEN {"none", "socket", "bind"} ELSE Faults

BindReuse ==
    /\ Len(sockets) < MaxSockets
    /\ \E input \in BindInputs : \E env \in BindEnvFor(input) : \E fault \in FaultsOf("bind_reuse") :
       \E eport \in PortChoices(sockets) :
         \E out \in {bind_reuse(input, env, fault, eport, sockets, windows)} :
             /\ bres' = out.res
             /\ bcalls' = out.calls
             /\ sockets' = out.table
    /\ UNCHANGED <<windows, resolveVars, mcastVars, sendVars, connVars>>

ConnectorNew ==
    /\ Len(sockets) < MaxSockets
    /\ \E input \in BindInputs : \E env \in BindEnvFor(input) : \E fault \in FaultsOf("new") :
       \E eport \in PortChoices(sockets) :
         \E out \in {UdpConnector_new(input, env, fault, eport, sockets, windows)} :
             /\ bres' = out.res
             /\ bcalls' = out.calls
             /\ sockets' = out.table
    /\ UNCHANGED <<windows, resolveVars, mcastVars, sendVars, connVars>>

\* a bound socket goes out of scope (deconstruct()'s result, or the connector, is dropped)
DropSocket ==
    /\ \E k \in 1..Len(sockets) :
         sockets' = [j \in 1..(Len(sockets) - 1) |-> IF j < k THEN sockets[j] ELSE sockets[j + 1]]
    /\ bres' = [NoBind EXCEPT !.op = "drop"]
    /\ bcalls' = <<OsCall("close", "")>>
    /\ UNCHANGED <<windows, resolveVars, mcastVars, sendVars, connVars>>

-----------------------------------------------------------------------------
(* src/net/mod.rs: join_multicast, leave_multicast *)


Ifaces ==
    { V4(Ips.v4_192_168_0_1, 1900), V4(Ips.v4_10_0_0_1, 0), V4(Ips.v4_any4, 1900) } \cup
    { V6(Ips.v6_fe80_1, 1900, f, sc) : f \in {0, MaxFlow}, sc \in {0, MaxScope} }

\* multicast groups as socket addresses; join_multicast takes the IP alone
Groups ==
    { V4(Ips.v4_239_255_255_250, 1900), V4(Ips.v4_224_0_0_251, 5353),
      V6(Ips.v6_ff02_c, 1900, 0, 0), V6(Ips.v6_ff05_c, 1900, 0, 0) }

\* what the OS answers to a membership call
McastOsResults == {"Ok", "AddrNotAvailable", "AddrInUse"}

\* one membership call on the socket: V4 names the interface by its IP,
\* V6 by its index
McastCall(name, group, ifip, ifindex) ==
    [call |-> name, group |-> group, ifip |-> ifip, ifindex |-> ifindex]

McastRes(op, iface, group, os, tag, kind) ==
    [op |-> op, iface |-> iface, group |-> group, os |-> os, tag |-> tag, kind |-> kind]
NoMcast == McastRes("none", NoAddr, NoAddr, "Ok", "None", "")

OsTag(os)  == IF os = "Ok" THEN "Ok" ELSE "Err"
OsKind(os) == IF os = "Ok" THEN "" ELSE os

\* a slip: the V6 interface named by its flow-info instead of its scope id
join_multicast_flow(iface, mcast, os) ==
    IF iface.fam = "V4" /\ mcast.fam = "V4"
    THEN [res |-> McastRes("join", iface, mcast, os, OsTag(os), OsKind(os)),
          calls |-> <<McastCall("join_multicast_v4", mcast.ip, iface.ip, 0)>>]
    ELSE IF iface.fam = "V6" /\ mcast.fam = "V6"
    THEN [res |-> McastRes("join", iface, mcast, os, OsTag(os), OsKind(os)),
          calls |-> <<McastCall("join_multicast_v6", mcast.ip, NoIp, iface.flow)>>]
    ELSE [res |-> McastRes("join", iface, mcast, os, "Err", InvalidInput), calls |-> <<>>]

\* join_multicast(sock, iface, mcast_addr): [res, calls]
join_multicast(iface, mcast, os) ==
    IF iface.fam = "V4" /\ mcast.fam = "V4"
    THEN [res |-> McastRes("join", iface, mcast, os, OsTag(os), OsKind(os)),
          calls |-> <<McastCall("join_multicast_v4", mcast.ip, iface.ip, 0)>>]
    ELSE IF iface.fam = "V6" /\ mcast.fam = "V6"
    THEN [res |-> McastRes("join", iface, mcast, os, OsTag(os), OsKind(os)),
          calls |-> <<McastCall("join_multicast_v6", mcast.ip, NoIp, iface.scope)>>]
    ELSE [res |-> McastRes("join", iface, mcast, os, "Err", InvalidInput), calls |-> <<>>]

\* leave_multicast(sock, iface_addr, mcast_addr): [res, calls]
leave_multicast(iface, mcast, os) ==
    IF iface.fam = "V4" /\ mcast.fam = "V4"
    THEN [res |-> McastRes("leave", iface, mcast, os, OsTag(os), OsKind(os)),
          calls |-> <<McastCall("leave_multicast_v4", mcast.ip, iface.ip, 0)>>]
    ELSE IF iface.fam = "V6" /\ mcast.fam = "V6"
    THEN [res |-> McastRes("leave", iface, mcast, os, OsTag(os), OsKind(os)),
          calls |-> <<McastCall("leave_multicast_v6", mcast.ip, NoIp, iface.scope)>>]
    ELSE [res |-> McastRes("leave", iface, mcast, os, "Err", InvalidInput), calls |-> <<>>]

\* join_multicast is given the group's IP: the port plays no part
IpOnly(a) == [a EXCEPT !.port = 0]

JoinMulticast ==
    /\ \E iface \in Ifaces : \E g \in Groups : \E os \in McastOsResults :
         \E out \in {join_multicast(iface, IpOnly(g), os)} :
             mres' = out.res /\ mcalls' = out.calls
    /\ UNCHANGED <<resolveVars, bindVars, sendVars, connVars>>

LeaveMulticast ==
    /\ \E iface \in Ifaces : \E g \in Groups : \E os \in McastOsResults :
         \E out \in {leave_multicast(iface, g, os)} :
             mres' = out.res /\ mcalls' = out.calls
    /\ UNCHANGED <<resolveVars, bindVars, sendVars, connVars>>

-----------------------------------------------------------------------------
(* src/net/mod.rs: NetworkStream::send *)

Bytes   == {0, 255}
Packets == SeqsUpTo(Bytes, MaxPacket)

\* what the stream answers to write_all and to flush
StreamResults == {"Ok", "WriteZero", "ConnectionRefused"}

StreamCall(name, buf) == [call |-> name, buf |-> buf]

\* a slip: flush is called whatever write_all returned
send_always_flush(packet, w, f) ==
    [calls |-> <<StreamCall("write_all", packet), StreamCall("flush", <<>>)>>,
     tag   |-> IF w = "Ok" /\ f = "Ok" THEN "Ok" ELSE "Err",
     kind  |-> IF w # "Ok" THEN w ELSE OsKind(f)]

\* the default send(packet) on a stream whose write_all answers w and whose
\* flush answers f: [calls, tag, kind]
send(packet, w, f) ==
    IF w # "Ok"
    THEN [calls |-> <<StreamCall("write_all", packet)>>, tag |-> "Err", kind |-> w]
    ELSE IF f # "Ok"
    THEN [calls |-> <<StreamCall("write_all", packet), StreamCall("flush", <<>>)>>,
          tag |-> "Err", kind |-> f]
    ELSE [calls |-> <<StreamCall("write_all", packet), StreamCall("flush", <<>>)>>,
          tag |-> "Ok", kind |-> ""]

Send ==
    /\ Len(sres) < MaxSends
    /\ \E packet \in Packets : \E w \in StreamResults : \E f \in StreamResults :
         \E out \in {send(packet, w, f)} :
             /\ slog' = Append(slog, out.calls)
             /\ sres' = Append(sres, [packet |-> packet, w |-> w, f |-> f,
                                      tag |-> out.tag, kind |-> out.kind])
    /\ UNCHANGED <<resolveVars, bindVars, mcastVars, connVars>>

\* the stream is dropped and another one is used
NewStream ==
    /\ Len(sres) > 0
    /\ slog' = <<>>
    /\ sres' = <<>>
    /\ UNCHANGED <<resolveVars, bindVars, mcastVars, connVars>>

-----------------------------------------------------------------------------
(* src/net/connector.rs: UdpConnector::connect *)

HostTexts ==
    [ h_1_2_3_4          |-> <<"1",".","2",".","3",".","4">>,
      h_255x4            |-> <<"2","5","5",".","2","5","5",".","2","5","5",".","2","5","5">>,
      h_0_0_0_0          |-> <<"0",".","0",".","0",".","0">>,
      h_256_1_1_1        |-> <<"2","5","6",".","1",".","1",".","1">>,
      h_1_2_3            |-> <<"1",".","2",".","3">>,
      h_1_2_3_4_p80      |-> <<"1",".","2",".","3",".","4",":","8","0">>,
      h_example_org      |-> <<"e","x","a","m","p","l","e",".","o","r","g">>,
      h_empty            |-> <<>>,
      h_loop6            |-> <<":",":","1">>,
      h_b_loop6          |-> <<"[",":",":","1","]">>,
      h_fe80_1_s5        |-> <<"f","e","8","0",":",":","1","%","5">>,
      h_b_fe80_1_s5      |-> <<"[","f","e","8","0",":",":","1","%","5","]">>,
      h_ff02_c           |-> <<"f","f","0","2",":",":","c">>,
      h_mapped_1_2_3_4   |-> <<":",":","f","f","f","f",":","1",".","2",".","3",".","4">>,
      h_b_mapped_1_2_3_4 |-> <<"[",":",":","f","f","f","f",":","1",".","2",".","3",".","4","]">>,
      h_full6            |-> <<"1",":","2",":","3",":","4",":","5",":","6",":","7",":","8">>,
      h_open_loop6       |-> <<"[",":",":","1">>,
      h_loop6_close      |-> <<":",":","1","]">>,
      h_open             |-> <<"[">>,
      h_bb_loop6         |-> <<"[","[",":",":","1","]","]">>,
      h_loop6_inject     |-> <<":",":","1","]",":","8","0">>,
      h_brackets         |-> <<"[","]">>,
      h_nine_groups      |-> <<"1",":","2",":","3",":","4",":","5",":","6",":","7",":","8",":","9">> ]


\* dotted-quad literals, with the address each denotes
V4HostLiterals ==
    { [text |-> HostTexts.h_1_2_3_4, ip |-> Ips.v4_1_2_3_4],
      [text |-> HostTexts.h_255x4,   ip |-> Ips.v4_255x4],
      [text |-> HostTexts.h_0_0_0_0, ip |-> Ips.v4_any4] }

\* IPv6 literals (bare), with the address each denotes and the scope id the
\* text itself carries
V6HostLiterals ==
    { [text |-> HostTexts.h_loop6,          ip |-> Ips.v6_loop,   scope |-> 0],
      [text |-> HostTexts.h_fe80_1_s5,      ip |-> Ips.v6_fe80_1, scope |-> 5],
      [text |-> HostTexts.h_ff02_c,         ip |-> Ips.v6_ff02_c, scope |-> 0],
      [text |-> HostTexts.h_mapped_1_2_3_4, ip |-> Ips.v6_mapped, scope |-> 0],
      [text |-> HostTexts.h_full6,          ip |-> Ips.v6_full,   scope |-> 0] }

Bracketed(h) == <<"[">> \o h \o <<"]">>

Hosts ==
    { HostTexts.h_1_2_3_4, HostTexts.h_255x4, HostTexts.h_0_0_0_0, HostTexts.h_256_1_1_1, HostTexts.h_1_2_3, HostTexts.h_1_2_3_4_p80,
      HostTexts.h_example_org, HostTexts.h_empty,
      HostTexts.h_loop6, HostTexts.h_b_loop6, HostTexts.h_fe80_1_s5, HostTexts.h_b_fe80_1_s5, HostTexts.h_ff02_c,
      HostTexts.h_mapped_1_2_3_4, HostTexts.h_b_mapped_1_2_3_4, HostTexts.h_full6,
      HostTexts.h_open_loop6, HostTexts.h_loop6_close, HostTexts.h_open, HostTexts.h_bb_loop6, HostTexts.h_loop6_inject, HostTexts.h_brackets,
      HostTexts.h_nine_groups }

Ports == {1900, U16Max}

Threads == {"t1", "t2"}

\* the second thread's calls: the bracketed forms, a dotted quad, the empty text
PeerHosts == {HostTexts.h_b_loop6, HostTexts.h_b_fe80_1_s5, HostTexts.h_b_mapped_1_2_3_4, HostTexts.h_brackets, HostTexts.h_1_2_3_4, HostTexts.h_empty}
HostsOf(t) == IF t = "t1" THEN Hosts ELSE PeerHosts
PortsOf(t) == IF t = "t1" THEN Ports ELSE {1900}

\* the address the connector's socket is bound to
LocalAddrs ==
    { V4(Ips.v4_192_168_0_1, 49152),
      V6(Ips.v6_fe80_1, 49152, 0, 0),
      V6(Ips.v6_fe80_1, 49152, MaxFlow, MaxScope) }

\* io::Result<UdpSender>: a sender is a cloned handle and a destination
OkStream(h, dest)    == [tag |-> "Ok",  kind |-> "", origin |-> "", handle |-> h, dest |-> dest]
ErrStream(kind, org) == [tag |-> "Err", kind |-> kind, origin |-> org, handle |-> -1, dest |-> NoAddr]
NoStream             == [tag |-> "None", kind |-> "", origin |-> "", handle |-> -1, dest |-> NoAddr]

\* host.find('[') == Some(0) && host.rfind(']') == Some(host.len() - 1);
\* "panic" is the overflow of len() - 1 on an empty host, were it evaluated
bracket_framed(host) ==
    IF str_find(host, "[") # 0 THEN "no"               \* && stops here
    ELSE IF Len(host) = 0 THEN "panic"
    ELSE IF str_rfind(host, "]") = Len(host) - 1 THEN "yes" ELSE "no"

\* [tag, kind, dest] of a destination
DestOk(d)    == [tag |-> "Ok",  kind |-> "", dest |-> d]
DestErr(k)   == [tag |-> "Err", kind |-> k,  dest |-> NoAddr]
DestPanic    == [tag |-> "Panic", kind |-> "", dest |-> NoAddr]

\* the text handed to the V6 parser
v6_text(host, port, framed) ==
    IF framed = "yes"
    THEN host \o <<":">> \o fmt_u16(port)                     \* "{}:{}"
    ELSE <<"[">> \o host \o <<"]", ":">> \o fmt_u16(port)     \* "[{}]:{}"

\* the V4 arm on the parsed host
dest_v4(ip, port) == IF ip.ok THEN DestOk(V4(ip.val, port)) ELSE DestErr(InvalidInput)

\* the V6 arm on the parsed text: flow-info and scope id are the local ones
dest_v6(loc, framed, a) ==
    IF framed = "panic" THEN DestPanic
    ELSE IF ~a.ok THEN DestErr(InvalidInput)
    ELSE DestOk([a.val EXCEPT !.flow = loc.flow, !.scope = loc.scope])

\* a slip: the port argument is not used on the V4 side
connect_dest_anyport(loc, host, port) ==
    IF loc.fam = "V4"
    THEN dest_v4(Ipv4Addr_from_str(host), 0)
    ELSE dest_v6(loc, bracket_framed(host),
                 SocketAddrV6_from_str(v6_text(host, port, bracket_framed(host))))

\* a slip: the parsed address keeps its own scope id
dest_v6_keep_scope(loc, framed, a) ==
    IF ~a.ok THEN DestErr(InvalidInput) ELSE DestOk([a.val EXCEPT !.flow = loc.flow])
connect_dest_keep_scope(loc, host, port) ==
    IF loc.fam = "V4"
    THEN dest_v4(Ipv4Addr_from_str(host), port)
    ELSE dest_v6_keep_scope(loc, bracket_framed(host),
                 SocketAddrV6_from_str(v6_text(host, port, bracket_framed(host))))

\* a slip: brackets are synthesized whatever the host looks like
connect_dest_always_wrap(loc, host, port) ==
    IF loc.fam = "V4"
    THEN dest_v4(Ipv4Addr_from_str(host), port)
    ELSE dest_v6(loc, "no", SocketAddrV6_from_str(v6_text(host, port, "no")))

\* the match on self.local_addr()? in connect: the destination for (host, port)
\* given the local address
connect_dest(loc, host, port) ==
    IF loc.fam = "V4"
    THEN dest_v4(Ipv4Addr_from_str(host), port)
    ELSE dest_v6(loc, bracket_framed(host),
                 SocketAddrV6_from_str(v6_text(host, port, bracket_framed(host))))

\* File descriptors: the lowest unused number is given out
fresh_handle(hs) == CHOOSE h \in 0..Cardinality(hs) : h \notin hs /\ \A j \in 0..(h - 1) : j \in hs

\* a slip: the clone outlives a failed call
drop_clone_leaking(hs, h) == hs

\* udp_sock goes out of scope when `?` returns early: the clone is closed
drop_clone(hs, h) == hs \ {h}

\* self.0.try_clone()?
ConnectClone(t) ==
    /\ pc[t] = "idle"
    /\ \E host \in HostsOf(t) : \E port \in PortsOf(t) : \E ok \in BOOLEAN :
         /\ chost' = [chost EXCEPT ![t] = host]
         /\ cport' = [cport EXCEPT ![t] = port]
         /\ IF ok
            THEN /\ chandle' = [chandle EXCEPT ![t] = fresh_handle(handles)]
                 /\ handles' = handles \cup {fresh_handle(handles)}
                 /\ pc' = [pc EXCEPT ![t] = "cloned"]
                 /\ cres' = [cres EXCEPT ![t] = NoStream]
            ELSE /\ chandle' = [chandle EXCEPT ![t] = -1]
                 /\ handles' = handles
                 /\ pc' = [pc EXCEPT ![t] = "done"]
                 /\ cres' = [cres EXCEPT ![t] = ErrStream("TooManyOpenFiles", "try_clone")]
    /\ UNCHANGED <<local, wire, resolveVars, bindVars, mcastVars, sendVars>>

\* self.local_addr()?
ConnectLocalAddr(t) ==
    /\ pc[t] = "cloned"
    /\ \E ok \in BOOLEAN :
         IF ok
         THEN /\ pc' = [pc EXCEPT ![t] = "addressed"]
              /\ UNCHANGED <<handles, chandle, cres>>
         ELSE /\ pc' = [pc EXCEPT ![t] = "done"]
              /\ handles' = drop_clone(handles, chandle[t])
              /\ chandle' = [chandle EXCEPT ![t] = -1]
              /\ cres' = [cres EXCEPT ![t] = ErrStream("NotConnected", "local_addr")]
    /\ UNCHANGED <<local, chost, cport, wire, resolveVars, bindVars, mcastVars, sendVars>>

\* the destination is built and handed, with the clone, to UdpSender::new
ConnectBuild(t) ==
    /\ pc[t] = "addressed"
    /\ \E d \in {connect_dest(local, chost[t], cport[t])} :
           IF d.tag = "Ok"
           THEN /\ cres' = [cres EXCEPT ![t] = OkStream(chandle[t], d.dest)]
                /\ UNCHANGED handles
           ELSE /\ cres' = [cres EXCEPT ![t] =
                              IF d.tag = "Panic" THEN [NoStream EXCEPT !.tag = "Panic"]
                              ELSE ErrStream(d.kind, "from_str")]
                /\ handles' = drop_clone(handles, chandle[t])
    /\ chandle' = [chandle EXCEPT ![t] = -1]
    /\ pc' = [pc EXCEPT ![t] = "done"]
    /\ UNCHANGED <<local, chost, cport, wire, resolveVars, bindVars, mcastVars, sendVars>>

\* the caller writes to the stream it got: the sender transmits a datagram
StreamWrite(t) ==
    /\ pc[t] = "done"
    /\ cres[t].tag = "Ok"
    /\ wire < MaxWire
    /\ wire' = wire + 1
    /\ UNCHANGED <<local, handles, pc, chost, cport, chandle, cres,
                   resolveVars, bindVars, mcastVars, sendVars>>

\* the caller lets go of the result: a sender's handle is closed with it
DropResult(t) ==
    /\ pc[t] = "done"
    /\ handles' = IF cres[t].tag = "Ok" THEN handles \ {cres[t].handle} ELSE handles
    /\ cres' = [cres EXCEPT ![t] = NoStream]
    /\ pc' = [pc EXCEPT ![t] = "idle"]
    /\ UNCHANGED <<local, chost, cport, chandle, wire, resolveVars, bindVars, mcastVars, sendVars>>

-----------------------------------------------------------------------------
(* Specifications *)

ResolveIdle == rin = NoInput /\ rcands = NoCands /\ rout = NoResult /\ rmode = NoMode
BindIdle(w) == windows = w /\ sockets = <<>> /\ bcalls = <<>> /\ bres = NoBind
McastIdle   == mcalls = <<>> /\ mres = NoMcast
SendIdle    == slog = <<>> /\ sres = <<>>
ConnIdle(l) ==
    /\ local = l
    /\ handles = {0}
    /\ pc = [t \in Threads |-> "idle"]
    /\ chost = [t \in Threads |-> HostTexts.h_empty]
    /\ cport = [t \in Threads |-> 0]
    /\ chandle = [t \in Threads |-> -1]
    /\ cres = [t \in Threads |-> NoStream]
    /\ wire = 0

DefaultLocal == V4(Ips.v4_192_168_0_1, 49152)

\* address resolution
InitResolve == ResolveIdle /\ BindIdle(FALSE) /\ McastIdle /\ SendIdle /\ ConnIdle(DefaultLocal)
NextResolve == AddrFromTrait \/ FromAddr
SpecResolve == InitResolve /\ [][NextResolve]_vars

\* binding, on either build target
InitBind ==
    /\ \E w \in BOOLEAN : BindIdle(w)
    /\ ResolveIdle /\ McastIdle /\ SendIdle /\ ConnIdle(DefaultLocal)
NextBind == BindReuse \/ ConnectorNew \/ DropSocket
SpecBind == InitBind /\ [][NextBind]_vars

\* multicast membership
InitMcast == ResolveIdle /\ BindIdle(FALSE) /\ McastIdle /\ SendIdle /\ ConnIdle(DefaultLocal)
NextMcast == JoinMulticast \/ LeaveMulticast
SpecMcast == InitMcast /\ [][NextMcast]_vars

\* the default send of a stream
InitSend == ResolveIdle /\ BindIdle(FALSE) /\ McastIdle /\ SendIdle /\ ConnIdle(DefaultLocal)
NextSend == Send \/ NewStream
SpecSend == InitSend /\ [][NextSend]_vars

\* one connector, used by several threads
InitConnect ==
    /\ \E l \in LocalAddrs : ConnIdle(l)
    /\ ResolveIdle /\ BindIdle(FALSE) /\ McastIdle /\ SendIdle
NextConnect ==
    \E t \in Threads :
        \/ ConnectClone(t)
        \/ ConnectLocalAddr(t)
        \/ ConnectBuild(t)
        \/ StreamWrite(t)
        \/ DropResult(t)
SpecConnect == InitConnect /\ [][NextConnect]_vars

Init == InitConnect
Next == NextResolve \/ NextBind \/ NextMcast \/ NextSend \/ NextConnect
Spec == Init /\ [][Next]_vars

-----------------------------------------------------------------------------
(* Properties of address resolution, under SpecResolve *)

\* texts that are an IP address with no port
BareIps == {Texts.t_192_168_0_1, Texts.t_b_loop6}

\* C1, as stated: every failure of addr_from_trait carries the kind
\* InvalidInput, the failures of the to_socket_addrs lookup included.
C1_EveryFailureIsInvalidInput ==
    rout.tag = "Err" => rout.kind = InvalidInput

\* C1, amended: addr_from_trait makes an InvalidInput error of its own exactly
\* when resolution yields zero candidates; a failure of to_socket_addrs is
\* returned as it is, with the kind it has: InvalidInput for a text with no port
\* (a bare IP) or a bad port, the resolver's own kind when the name lookup fails.
C1_FailureKinds ==
    /\ (rcands.tag = "Ok" /\ rcands.cands = <<>>)
          => rout = ErrAddr(InvalidInput, "addr_from_trait")
    /\ rcands.tag = "Err" => rout = ErrAddr(rcands.kind, "to_socket_addrs")
    /\ rout.tag = "Err" => (rcands.tag = "Err" \/ rcands.cands = <<>>)
    /\ (rin.kind = "str" /\ rin.text \in BareIps)
          => (rout.tag = "Err" /\ rout.kind = InvalidInput)
    /\ (rout.tag = "Err" /\ rout.kind # InvalidInput)
          => (rout.kind = Uncategorized /\ uses_lookup(rin))

C1_LookupFailure ==
    /\ rin = StrInput(Texts.t_localhost_p80)
    /\ rout.tag = "Err"
    /\ rout.kind = Uncategorized

\* C2: a non-empty candidate sequence makes addr_from_trait succeed with its
\* first candidate; an "ip:port" literal resolves to the address it denotes, of
\* its own family; from_addr maps a V4 result to V4Only and a V6 result to
\* V6Only, and never yields Any.
C2_FirstCandidate ==
    /\ (rcands.tag = "Ok" /\ Len(rcands.cands) > 0) => rout = OkAddr(rcands.cands[1])
    /\ \A l \in ValidLiterals : rin = StrInput(l.text) => rout = OkAddr(l.addr)
    /\ rmode.tag = "Ok" =>
          /\ rout.tag = "Ok"
          /\ rmode.mode = (IF rout.addr.fam = "V4" THEN "V4Only" ELSE "V6Only")
          /\ rmode.mode # "Any"
    /\ rmode.tag = "Err" => (rout.tag = "Err" /\ rmode.kind = rout.kind)

C2_MixedCandidates ==
    /\ rmode.tag = "Ok"
    /\ Len(rcands.cands) = 2
    /\ rcands.cands[1].fam = "V6"
    /\ rcands.cands[2].fam = "V4"
    /\ rmode.mode = "V6Only"

-----------------------------------------------------------------------------
(* Properties of multicast membership, under SpecMcast *)

McastCallName(op, fam) ==
    CASE op = "join"  /\ fam = "V4" -> "join_multicast_v4"
      [] op = "join"  /\ fam = "V6" -> "join_multicast_v6"
      [] op = "leave" /\ fam = "V4" -> "leave_multicast_v4"
      [] op = "leave" /\ fam = "V6" -> "leave_multicast_v6"

\* C3: with an interface and a group of different families, join and leave
\* return InvalidInput and make no OS call; with matching families they make
\* exactly one call of that family (V4: group and interface IP; V6: group and
\* the interface's scope id) and return what it returned.
C3_FamilyCheck ==
    mres.op # "none" =>
        IF mres.iface.fam # mres.group.fam
        THEN mres.tag = "Err" /\ mres.kind = InvalidInput /\ mcalls = <<>>
        ELSE /\ Len(mcalls) = 1
             /\ mcalls[1] = McastCall(McastCallName(mres.op, mres.iface.fam),
                                      mres.group.ip,
                                      IF mres.iface.fam = "V4" THEN mres.iface.ip ELSE NoIp,
                                      IF mres.iface.fam = "V4" THEN 0 ELSE mres.iface.scope)
             /\ mres.tag = OsTag(mres.os)
             /\ mres.kind = OsKind(mres.os)

C3_MismatchRefused ==
    /\ mres.op = "join"
    /\ mres.iface.fam = "V4"
    /\ mres.group.fam = "V6"
    /\ mres.tag = "Err"
    /\ mcalls = <<>>

-----------------------------------------------------------------------------
(* Properties of the default send, under SpecSend *)

\* C9: send calls write_all with the whole buffer and then flush; when
\* write_all fails flush is not called and the write error is returned; when
\* flush fails its error is returned; Ok only when both succeeded.
C9_WriteThenFlush ==
    /\ Len(slog) = Len(sres)
    /\ \A i \in 1..Len(sres) :
         /\ Len(slog[i]) >= 1
         /\ slog[i][1] = StreamCall("write_all", sres[i].packet)
         /\ IF sres[i].w # "Ok"
            THEN Len(slog[i]) = 1 /\ sres[i].tag = "Err" /\ sres[i].kind = sres[i].w
            ELSE /\ Len(slog[i]) = 2
                 /\ slog[i][2] = StreamCall("flush", <<>>)
                 /\ IF sres[i].f # "Ok"
                    THEN sres[i].tag = "Err" /\ sres[i].kind = sres[i].f
                    ELSE sres[i].tag = "Ok"

C9_WriteFailed ==
    \E i \in 1..Len(sres) :
        /\ Len(sres[i].packet) = MaxPacket
        /\ sres[i].w = "WriteZero"
        /\ sres[i].f = "ConnectionRefused"
        /\ sres[i].kind = "WriteZero"

-----------------------------------------------------------------------------
(* Properties of binding, under SpecBind *)

\* the bind table as the last binding call found it
TableBefore == IF bres.tag = "Ok" THEN SubSeq(sockets, 1, Len(sockets) - 1) ELSE sockets

\* the socket the last binding call produced
Produced == sockets[Len(sockets)]

CallIndex(c) == { i \in 1..Len(bcalls) : bcalls[i] = c }
Before(c, i) == \E j \in CallIndex(c) : j < i

\* C4, as stated: the socket of a connector made by UdpConnector::new is bound
\* as bind_reuse binds, with address-reuse (and port-reuse off Windows) set
\* before the bind, so that a second connector on an address and port already
\* bound by a first one is created too.
C4_ConnectorSocketReuses ==
    /\ (bres.op = "new" /\ bres.tag = "Ok") =>
          (Produced.reuseaddr /\ (~windows => Produced.reuseport))
    /\ (bres.op = "new" /\ bres.fault = "none" /\ bres.resolved.tag = "Ok"
        /\ bres.resolved.addr.port # 0) => bres.tag = "Ok"

\* C4, amended: UdpConnector::new resolves the address with addr_from_trait and
\* binds it with UdpSocket::bind, which sets neither address-reuse nor
\* port-reuse; its socket carries no reuse option, and creating a connector on
\* an address and non-zero port that is still bound fails with the bind error
\* (address in use) and produces no connector.
C4_ConnectorSocketPlain ==
    /\ \A k \in 1..Len(sockets) :
          sockets[k].by = "new" => (~sockets[k].reuseaddr /\ ~sockets[k].reuseport)
    /\ bres.op = "new" =>
          /\ bres.resolved.tag = "Err" =>
                (bres.tag = "Err" /\ bres.kind = bres.resolved.kind /\ bcalls = <<>>)
          /\ bres.tag = "Ok" =>
                /\ bres.resolved.tag = "Ok"
                /\ Produced = Sock(bres.addr, FALSE, FALSE, "new")
                /\ bres.addr.ip = bres.resolved.addr.ip
                /\ bres.resolved.addr.port # 0 => bres.addr = bres.resolved.addr
                /\ bcalls = <<OsCall("socket", bres.addr.fam), OsCall("bind", "")>>
          /\ (/\ bres.resolved.tag = "Ok"
              /\ bres.fault = "none"
              /\ bres.resolved.addr.port # 0
              /\ \E k \in 1..Len(TableBefore) :
                    Overlap(TableBefore[k].addr, bres.resolved.addr))
             => (bres.tag = "Err" /\ bres.kind = AddrInUse /\ bres.origin = "bind")

C4_SecondConnectorRefused ==
    /\ bres.op = "new"
    /\ bres.tag = "Err"
    /\ bres.kind = AddrInUse
    /\ \E k \in 1..Len(sockets) :
          sockets[k].by = "new" /\ sockets[k].addr = bres.resolved.addr

\* what holds after every bind_reuse call
C5_Ordered ==
    bres.op = "bind_reuse" =>
      /\ bres.resolved.tag = "Err" =>
            (bres.tag = "Err" /\ bres.kind = bres.resolved.kind /\ bcalls = <<>>)
      /\ \A i \in CallIndex(OsCall("bind", "")) :
            /\ Before(OsCall("socket", bres.resolved.addr.fam), i)
            /\ Before(OsCall("setsockopt", "SO_REUSEADDR"), i)
            /\ ~windows => Before(OsCall("setsockopt", "SO_REUSEPORT"), i)
      /\ windows => CallIndex(OsCall("setsockopt", "SO_REUSEPORT")) = {}
      /\ bres.tag = "Ok" =>
            /\ bres.resolved.tag = "Ok"
            /\ bcalls[Len(bcalls)] = OsCall("bind", "")
            /\ Produced = Sock(bres.addr, TRUE, ~windows, "bind_reuse")
            /\ bres.resolved.addr.port # 0 => bres.addr = bres.resolved.addr
      /\ (bres.resolved.tag = "Ok" /\ bres.fault \in {"socket", "reuseaddr", "bind"})
            => (bres.tag = "Err" /\ bres.kind = PermissionDenied)
      /\ (bres.resolved.tag = "Ok" /\ bres.fault = "reuseport" /\ ~windows)
            => (bres.tag = "Err" /\ bres.kind = PermissionDenied /\ bres.origin = "reuse_port")
      /\ (/\ ~windows
          /\ bres.fault = "none"
          /\ bres.resolved.tag = "Ok"
          /\ bres.resolved.addr.fam = "V4"
          /\ bres.resolved.addr.port # 0
          /\ \A k \in 1..Len(TableBefore) :
                Overlap(TableBefore[k].addr, bres.resolved.addr)
                   => TableBefore[k].by = "bind_reuse")
         => bres.tag = "Ok"

\* a failing bind_reuse leaves the bind table as it was
C5_NoSocketOnFailure ==
    (bres'.op = "bind_reuse" /\ bres'.tag = "Err") => sockets' = sockets

\* C5: bind_reuse resolves the address, makes a builder of its family and sets
\* address-reuse (and port-reuse off Windows) before it binds; off Windows a
\* bind to a V4 address and port held only by sockets of earlier bind_reuse
\* calls succeeds; a failing resolve, option set or bind returns that error and
\* produces no socket.
C5_ReuseBeforeBind == [](C5_Ordered) /\ [][C5_NoSocketOnFailure]_vars

C5_TwoBindsSameAddress ==
    /\ ~windows
    /\ bres.op = "bind_reuse"
    /\ bres.tag = "Ok"
    /\ Len(sockets) = 2
    /\ sockets[1].addr = sockets[2].addr
    /\ sockets[1].addr.fam = "V4"
    /\ sockets[1].by = "bind_reuse"
    /\ sockets[2].by = "bind_reuse"

-----------------------------------------------------------------------------
(* Properties of connect, under SpecConnect *)

\* the call of thread t ran to the point where the destination is built
Built(t) == pc[t] = "done" /\ cres[t].origin \notin {"try_clone", "local_addr"}

\* C6: on a V4-bound connector, connect with a dotted-quad host and any port
\* yields a stream whose destination is that address and that port (the OS
\* calls for the handle and the local address granted); any other host fails
\* with InvalidInput and yields no stream.
C6_V4Destination ==
    local.fam = "V4" =>
      \A t \in Threads : Built(t) =>
        IF \E l \in V4HostLiterals : l.text = chost[t]
        THEN \A l \in V4HostLiterals : l.text = chost[t] =>
                /\ cres[t].tag = "Ok"
                /\ cres[t].dest = V4(l.ip, cport[t])
                /\ cres[t].handle \in handles
        ELSE /\ cres[t].tag = "Err"
             /\ cres[t].kind = InvalidInput
             /\ cres[t].handle = -1
             /\ cres[t].dest = NoAddr

C6_BroadcastMaxPort ==
    /\ local.fam = "V4"
    /\ pc["t1"] = "done"
    /\ chost["t1"] = HostTexts.h_255x4
    /\ cport["t1"] = U16Max
    /\ cres["t1"].tag = "Ok"
    /\ pc["t2"] = "done"
    /\ chost["t2"] = HostTexts.h_b_loop6
    /\ cres["t2"].kind = InvalidInput

\* C7: on a V6-bound connector, a successful connect yields a V6 destination
\* with the local address's scope id and flow-info, whatever the host text
\* carried, with the IP of the host text and the port of the call.
C7_V6LocalScope ==
    local.fam = "V6" =>
      \A t \in Threads : (pc[t] = "done" /\ cres[t].tag = "Ok") =>
        /\ cres[t].dest.fam = "V6"
        /\ cres[t].dest.scope = local.scope
        /\ cres[t].dest.flow = local.flow
        /\ cres[t].dest.port = cport[t]
        /\ \A l \in V6HostLiterals :
              chost[t] \in {l.text, Bracketed(l.text)} => cres[t].dest.ip = l.ip

C7_TextScopeOverwritten ==
    /\ local.fam = "V6"
    /\ local.scope = MaxScope
    /\ local.flow = MaxFlow
    /\ pc["t1"] = "done"
    /\ chost["t1"] = HostTexts.h_fe80_1_s5
    /\ cres["t1"].tag = "Ok"
    /\ cres["t1"].dest.scope # 5

SameOutcome(a, b) ==
    \/ a.tag = "Ok" /\ b.tag = "Ok" /\ a.dest = b.dest
    \/ a.tag = "Err" /\ b.tag = "Err" /\ a.kind = InvalidInput /\ b.kind = InvalidInput

PartlyBracketed == {HostTexts.h_open_loop6, HostTexts.h_loop6_close, HostTexts.h_open, HostTexts.h_empty}

\* C8: on a V6-bound connector, connect(h, p) and connect("[" + h + "]", p) end
\* alike for a host h that is not itself bracketed: the same destination, or
\* InvalidInput twice; a host with only a leading '[' or only a trailing ']', or
\* the empty text, gets brackets put around it and fails with InvalidInput, and
\* no call panics.
C8_BracketsOptional ==
    local.fam = "V6" =>
      /\ \A t, u \in Threads :
            (/\ Built(t) /\ Built(u)
             /\ bracket_framed(chost[t]) = "no"
             /\ chost[u] = Bracketed(chost[t])
             /\ cport[u] = cport[t])
            => SameOutcome(cres[t], cres[u])
      /\ \A t \in Threads : pc[t] = "done" => cres[t].tag # "Panic"
      /\ \A t \in Threads : (Built(t) /\ chost[t] \in PartlyBracketed) =>
            /\ bracket_framed(chost[t]) = "no"
            /\ cres[t].tag = "Err"
            /\ cres[t].kind = InvalidInput

C8_BothForms ==
    /\ local.fam = "V6"
    /\ pc["t1"] = "done" /\ pc["t2"] = "done"
    /\ chost["t1"] = HostTexts.h_fe80_1_s5
    /\ chost["t2"] = HostTexts.h_b_fe80_1_s5
    /\ cport["t1"] = cport["t2"]
    /\ cres["t1"].tag = "Ok"
    /\ cres["t1"].dest = cres["t2"].dest

InCall(t) == pc[t] \in {"cloned", "addressed"}

\* what holds whatever calls are in progress or finished
C10_Handles ==
    /\ 0 \in handles
    /\ handles = {0} \cup { chandle[t] : t \in { x \in Threads : InCall(x) } }
                     \cup { cres[t].handle : t \in { x \in Threads : pc[x] = "done" /\ cres[x].tag = "Ok" } }
    /\ \A t \in Threads :
          /\ InCall(t) => chandle[t] > 0
          /\ (pc[t] = "done" /\ cres[t].tag = "Ok") =>
                /\ cres[t].handle > 0
                /\ chandle[t] = -1
                /\ cres[t].dest = connect_dest(local, chost[t], cport[t]).dest
          /\ (pc[t] = "done" /\ cres[t].tag # "Ok") =>
                /\ cres[t].tag = "Err"
                /\ cres[t].handle = -1
                /\ chandle[t] = -1
                /\ cres[t].dest = NoAddr
    /\ \A t, u \in Threads :
          (t # u /\ pc[t] = "done" /\ cres[t].tag = "Ok") =>
             /\ (pc[u] = "done" /\ cres[u].tag = "Ok") => cres[u].handle # cres[t].handle
             /\ InCall(u) => chandle[u] # cres[t].handle

\* a step of some connect call transmits nothing and leaves the connector's
\* socket and local address alone
C10_ConnectStep ==
    /\ local' = local
    /\ (\E t \in Threads : pc'[t] # pc[t] /\ pc'[t] # "idle") => wire' = wire
    /\ 0 \in handles'

\* C10: whatever the sequence or interleaving of connect calls on one
\* connector, its socket and local address stay as they are and connect
\* transmits nothing; a successful call returns a new stream with a cloned
\* handle of its own and the destination of its own (host, port) and the local
\* address; a failed call returns no stream and keeps no handle.
C10_ConnectStateless == [](C10_Handles) /\ [][C10_ConnectStep]_vars

C10_OneStreamOneFailure ==
    /\ pc["t1"] = "done" /\ pc["t2"] = "done"
    /\ cres["t1"].tag = "Err" /\ cres["t1"].origin = "from_str"
    /\ cres["t2"].tag = "Ok"
    /\ handles = {0, cres["t2"].handle}
    /\ wire = MaxWire

====
